---- MODULE Spec2Model ----
(***************************************************************************)
(* Model of the kernel-launch runtime of kernel/src/vx_spawn.c.            *)
(*                                                                         *)
(* vx_spawn_threads is called once on every core with the same arguments.  *)
(* Each call normalises the geometry, validates the block size, computes   *)
(* the core's slab, marshals a descriptor into the scratch CSR, spawns     *)
(* sibling warps onto a stub and runs the stub on warp 0.  Warps of a core *)
(* and the cores themselves run concurrently; every callback invocation is *)
(* recorded, lane by lane, in the history variable calls.                  *)
(*                                                                         *)
(* uint32_t arithmetic is modelled by the naturals: every value the model  *)
(* reaches is far below 2^32, so no operation of the source wraps.         *)
(* C arrays are 1-based sequences here: grid_dim[i] of the source is       *)
(* grid_dim[i + 1] of the model.  A thread mask is the integer written to  *)
(* vx_tmc, with -1 for (uint32_t)-1; the lanes it enables on a warp are    *)
(* given by ActiveLanes.                                                   *)
(***************************************************************************)
EXTENDS Integers, Sequences, FiniteSets

\* ---- bounds of the model ------------------------------------------------
MaxCores == 2
MaxWarps == 2
MaxThreads == 2
MaxGridAxis == 3
MaxBlockAxis == 3
MaxGroups == 6
MaxGroupSize == 6

\* ---- program state ------------------------------------------------------
VARIABLES
  args,             \* the arguments of the launch: dimension, grid_dim, block_dim
  dev,              \* the device: num_cores, warps_per_core, threads_per_warp
  gridDim,          \* global dim3_t gridDim
  blockDim,         \* global dim3_t blockDim
  warps_per_group_g,\* global uint32_t __warps_per_group
  pc,               \* pc[c]: where core c's call of vx_spawn_threads stands
  ret,              \* ret[c]: the value the call returned on core c, once pc[c] = "done"
  frame,            \* frame[c]: locals of warp 0's stack frame that outlive the spawn
  mscratch,         \* mscratch[c]: the descriptor VX_CSR_MSCRATCH of core c points to
  wspawns,          \* wspawns[c]: the warp counts passed to vx_wspawn on core c, in order
  tmc_calls,        \* tmc_calls[c]: number of thread-mask writes made on core c
  tmask,            \* tmask[c][w]: the set of lanes enabled on warp w of core c
  warp,             \* warp[c][w]: position of warp w in its stub, with its loop variable
  tls,              \* tls[c][w][t]: thread-local blockIdx, threadIdx, __local_group_id
  calls             \* history: one record per lane per callback invocation

vars == <<args, dev, gridDim, blockDim, warps_per_group_g, pc, ret, frame,
          mscratch, wspawns, tmc_calls, tmask, warp, tls, calls>>

NULL == <<>>
NoDesc == [kind |-> "none"]
NoFrame == [path |-> "none"]

Cores == 0 .. dev.num_cores - 1
Warps == 0 .. dev.warps_per_core - 1
Lanes == 0 .. dev.threads_per_warp - 1

MIN(a, b) == IF a < b THEN a ELSE b

Pow2(n) == 2 ^ n

\* The lanes of a warp of threads_per_warp lanes that the mask value m enables.
ActiveLanes(m, threads_per_warp) ==
  IF m = -1 THEN 0 .. threads_per_warp - 1
  ELSE {t \in 0 .. threads_per_warp - 1 : (m \div Pow2(t)) % 2 = 1}

\* ---- geometry normalisation ----------------------------------------------
GridAxis(dimension, grid_dim, i) ==
  IF grid_dim # NULL /\ i < dimension THEN grid_dim[i + 1] ELSE 1

BlockAxis(dimension, block_dim, i) ==
  IF block_dim # NULL /\ i < dimension THEN block_dim[i + 1] ELSE 1

Geometry(dimension, grid_dim, block_dim) ==
  LET gd == [i \in 1 .. 3 |-> GridAxis(dimension, grid_dim, i - 1)]
      bd == [i \in 1 .. 3 |-> BlockAxis(dimension, block_dim, i - 1)]
  IN [num_groups |-> gd[1] * gd[2] * gd[3],
      group_size |-> bd[1] * bd[2] * bd[3],
      gridDim |-> gd,
      blockDim |-> bd]

ThreadsPerCore(warps_per_core, threads_per_warp) == warps_per_core * threads_per_warp

\* Mutant of Oversize: a block that exactly fills the core is rejected too.
OversizeInclusive(group_size, warps_per_core, threads_per_warp) ==
  ThreadsPerCore(warps_per_core, threads_per_warp) <= group_size

Oversize(group_size, warps_per_core, threads_per_warp) ==
  ThreadsPerCore(warps_per_core, threads_per_warp) < group_size

\* ---- partitioner, block-per-warp path (group_size > 1) --------------------
\* Mutant of WarpsPerGroup: a partly filled last warp is not counted.
WarpsPerGroupFullOnly(group_size, threads_per_warp) ==
  group_size \div threads_per_warp

WarpsPerGroup(group_size, threads_per_warp) ==
  LET warps_per_group == group_size \div threads_per_warp
      remaining_threads == group_size % threads_per_warp
  IN IF remaining_threads # 0 THEN warps_per_group + 1 ELSE warps_per_group

\* Mutant of RemainingMask: the mask is 1 << remaining_threads.
RemainingMaskOneBit(group_size, threads_per_warp) ==
  LET remaining_threads == group_size % threads_per_warp
  IN IF remaining_threads # 0 THEN Pow2(remaining_threads) ELSE -1

RemainingMask(group_size, threads_per_warp) ==
  LET remaining_threads == group_size % threads_per_warp
  IN IF remaining_threads # 0 THEN Pow2(remaining_threads) - 1 ELSE -1

\* Mutant of ActiveCoresGroups: the ceiling is taken as floor + 1.
ActiveCoresGroupsFloorPlusOne(num_groups, warps_per_group, num_cores, warps_per_core) ==
  LET needed_warps == num_groups * warps_per_group
      needed_cores == (needed_warps \div warps_per_core) + 1
  IN MIN(needed_cores, num_cores)

ActiveCoresGroups(num_groups, warps_per_group, num_cores, warps_per_core) ==
  LET needed_warps == num_groups * warps_per_group
      needed_cores == (needed_warps + warps_per_core - 1) \div warps_per_core
  IN MIN(needed_cores, num_cores)

\* Mutant of PerCore: one core too many takes an extra block.
PerCoreInclusive(n, active_cores, core_id) ==
  LET total_per_core == n \div active_cores
      remaining_to_distribute == n % active_cores
  IN IF core_id <= remaining_to_distribute THEN total_per_core + 1 ELSE total_per_core

\* Slab size of core core_id: total_groups_per_core / tasks_per_core.
PerCore(n, active_cores, core_id) ==
  LET total_per_core == n \div active_cores
      remaining_to_distribute == n % active_cores
  IN IF core_id < remaining_to_distribute THEN total_per_core + 1 ELSE total_per_core

\* Mutant of Offset: the blocks of the remainder are not counted.
OffsetNoRemainder(n, active_cores, core_id) ==
  core_id * (n \div active_cores)

\* Slab start of core core_id: group_offset / all_tasks_offset_for_core.
Offset(n, active_cores, core_id) ==
  core_id * (n \div active_cores) + MIN(core_id, n % active_cores)

\* Mutant of GroupsSchedule: the stride handed to the stub is the slab size.
GroupsScheduleSlabStride(total_groups_per_core, warps_per_group, warps_per_core) ==
  LET groups_launchable_concurrently_on_core == warps_per_core \div warps_per_group
      total_warps_for_this_core == total_groups_per_core * warps_per_group
  IN IF total_warps_for_this_core > warps_per_core
     THEN LET active_warps_this_batch ==
                groups_launchable_concurrently_on_core * warps_per_group
          IN [active_warps |-> active_warps_this_batch,
              warp_batches |-> total_warps_for_this_core \div active_warps_this_batch,
              remaining_warps |-> total_warps_for_this_core % active_warps_this_batch,
              groups_per_core |-> total_groups_per_core]
     ELSE [active_warps |-> total_warps_for_this_core,
           warp_batches |-> 1,
           remaining_warps |-> 0,
           groups_per_core |-> total_groups_per_core]

\* Mutant of GroupsSchedule: the warps of the last, partial batch are dropped.
GroupsScheduleNoRemainder(total_groups_per_core, warps_per_group, warps_per_core) ==
  LET groups_launchable_concurrently_on_core == warps_per_core \div warps_per_group
      total_warps_for_this_core == total_groups_per_core * warps_per_group
  IN IF total_warps_for_this_core > warps_per_core
     THEN LET active_warps_this_batch ==
                groups_launchable_concurrently_on_core * warps_per_group
          IN [active_warps |-> active_warps_this_batch,
              warp_batches |-> total_warps_for_this_core \div active_warps_this_batch,
              remaining_warps |-> 0,
              groups_per_core |-> groups_launchable_concurrently_on_core]
     ELSE [active_warps |-> total_warps_for_this_core,
           warp_batches |-> 1,
           remaining_warps |-> 0,
           groups_per_core |-> groups_launchable_concurrently_on_core]

\* The warp-batch schedule of the groups path for a slab of total_groups_per_core blocks.
GroupsSchedule(total_groups_per_core, warps_per_group, warps_per_core) ==
  LET groups_launchable_concurrently_on_core == warps_per_core \div warps_per_group
      total_warps_for_this_core == total_groups_per_core * warps_per_group
  IN IF total_warps_for_this_core > warps_per_core
     THEN LET active_warps_this_batch ==
                groups_launchable_concurrently_on_core * warps_per_group
          IN [active_warps |-> active_warps_this_batch,
              warp_batches |-> total_warps_for_this_core \div active_warps_this_batch,
              remaining_warps |-> total_warps_for_this_core % active_warps_this_batch,
              groups_per_core |-> groups_launchable_concurrently_on_core]
     ELSE [active_warps |-> total_warps_for_this_core,
           warp_batches |-> 1,
           remaining_warps |-> 0,
           groups_per_core |-> groups_launchable_concurrently_on_core]

\* The wspawn_groups_args_t that core core_id marshals (callback and arg are
\* passed through unchanged and are not modelled).
GroupsArgs(num_groups, group_size, active_cores, core_id, warps_per_core, threads_per_warp) ==
  LET warps_per_group == WarpsPerGroup(group_size, threads_per_warp)
      total_groups_per_core == PerCore(num_groups, active_cores, core_id)
      sched == GroupsSchedule(total_groups_per_core, warps_per_group, warps_per_core)
  IN [kind |-> "groups",
      group_offset |-> Offset(num_groups, active_cores, core_id),
      warp_batches |-> sched.warp_batches,
      remaining_warps |-> sched.remaining_warps,
      warps_per_group |-> warps_per_group,
      groups_per_core |-> sched.groups_per_core,
      remaining_mask |-> RemainingMask(group_size, threads_per_warp)]

\* ---- partitioner, one-thread-per-block path (group_size <= 1) -------------
\* Mutant of ActiveCoresTasks: one core is counted per warp of tasks rather than
\* per threads_per_core tasks.
ActiveCoresTasksPerWarp(num_tasks, num_cores, warps_per_core, threads_per_warp) ==
  LET needed_cores == (num_tasks + threads_per_warp - 1) \div threads_per_warp
  IN MIN(needed_cores, num_cores)

ActiveCoresTasks(num_tasks, num_cores, warps_per_core, threads_per_warp) ==
  LET threads_per_core == ThreadsPerCore(warps_per_core, threads_per_warp)
      needed_cores == (num_tasks + threads_per_core - 1) \div threads_per_core
  IN MIN(needed_cores, num_cores)

\* Mutant of TasksSchedule: the warp count of a batched launch is not capped at
\* warps_per_core.
TasksScheduleUncapped(tasks_per_core, warps_per_core, threads_per_warp) ==
  LET total_warps_for_this_core_tasks == tasks_per_core \div threads_per_warp
  IN IF total_warps_for_this_core_tasks > warps_per_core
     THEN [active_warps |-> total_warps_for_this_core_tasks,
           warp_batches |-> total_warps_for_this_core_tasks \div warps_per_core,
           remaining_warps |-> total_warps_for_this_core_tasks % warps_per_core]
     ELSE [active_warps |-> total_warps_for_this_core_tasks,
           warp_batches |-> 1,
           remaining_warps |-> 0]

TasksSchedule(tasks_per_core, warps_per_core, threads_per_warp) ==
  LET total_warps_for_this_core_tasks == tasks_per_core \div threads_per_warp
  IN IF total_warps_for_this_core_tasks > warps_per_core
     THEN [active_warps |-> warps_per_core,
           warp_batches |-> total_warps_for_this_core_tasks \div warps_per_core,
           remaining_warps |-> total_warps_for_this_core_tasks % warps_per_core]
     ELSE [active_warps |-> total_warps_for_this_core_tasks,
           warp_batches |-> 1,
           remaining_warps |-> 0]

RemainingIndividualTasks(tasks_per_core, threads_per_warp) ==
  tasks_per_core % threads_per_warp

ThreadsArgs(num_tasks, active_cores, core_id, warps_per_core, threads_per_warp) ==
  LET tasks_per_core == PerCore(num_tasks, active_cores, core_id)
      sched == TasksSchedule(tasks_per_core, warps_per_core, threads_per_warp)
      all_tasks_offset_for_core == Offset(num_tasks, active_cores, core_id)
  IN [kind |-> "threads",
      all_tasks_offset |-> all_tasks_offset_for_core,
      remain_tasks_offset |-> all_tasks_offset_for_core
          + (tasks_per_core - RemainingIndividualTasks(tasks_per_core, threads_per_warp)),
      warp_batches |-> sched.warp_batches,
      remaining_warps |-> sched.remaining_warps]

\* ---- thread-local identity ------------------------------------------------
\* x-fastest decomposition of a linear block index against gridDim.
BlockIdxOf(id, gd) ==
  <<id % gd[1], (id \div gd[1]) % gd[2], id \div (gd[1] * gd[2])>>

\* x-fastest decomposition of a linear intra-block thread id against blockDim.
ThreadIdxOf(local_task_id, bd) ==
  <<local_task_id % bd[1], (local_task_id \div bd[1]) % bd[2],
    local_task_id \div (bd[1] * bd[2])>>

\* What the callback observes on lane t of warp w of core c, given that lane's
\* thread-local state l; lin is the linear index the calling loop is at.
Observation(c, w, t, fn, lin, l, mask) ==
  [core |-> c, warp |-> w, lane |-> t, fn |-> fn, lin |-> lin,
   blockIdx |-> l.blockIdx, threadIdx |-> l.threadIdx,
   local_group_id |-> l.local_group_id, tmask |-> mask]

\* ---- hardware primitives ---------------------------------------------------
\* vx_wspawn(n, f): the sibling warps 1 .. n-1 start at f with lane 0 enabled.
Spawned(n) == {w \in Warps : 1 <= w /\ w < n}

\* vx_wspawn(1, 0) at the end of the launch: warp 0 proceeds once every sibling
\* has disabled itself.
Quiesced(c) == \A w \in Warps \ {0} : warp[c][w].pc = "off"

\* A warp's position: pc, and the loop variable and loop bound of each lane.
AtStub == [pc |-> "stub", id |-> [t \in Lanes |-> 0], end |-> [t \in Lanes |-> 0]]

IdleWarp == [AtStub EXCEPT !.pc = "off"]

HostWarp == [AtStub EXCEPT !.pc = "host"]

\* ---- initial state ---------------------------------------------------------
Prod(s) == IF s = NULL THEN 1
           ELSE IF Len(s) = 1 THEN s[1]
           ELSE IF Len(s) = 2 THEN s[1] * s[2]
           ELSE s[1] * s[2] * s[3]

GridDims(d) == {NULL} \cup {g \in [1 .. d -> 0 .. MaxGridAxis] : Prod(g) <= MaxGroups}

BlockDims(d) == {NULL} \cup {b \in [1 .. d -> 0 .. MaxBlockAxis] : Prod(b) <= MaxGroupSize}

ZeroTls == [blockIdx |-> <<0, 0, 0>>, threadIdx |-> <<0, 0, 0>>, local_group_id |-> 0]

Init ==
  /\ \E d \in 1 .. 3 : \E g \in GridDims(d) : \E b \in BlockDims(d) :
       args = [dimension |-> d, grid_dim |-> g, block_dim |-> b]
  /\ dev \in [num_cores : 1 .. MaxCores,
              warps_per_core : 1 .. MaxWarps,
              threads_per_warp : 1 .. MaxThreads]
  /\ gridDim = <<0, 0, 0>>
  /\ blockDim = <<0, 0, 0>>
  /\ warps_per_group_g = 0
  /\ pc = [c \in Cores |-> "call"]
  /\ ret = [c \in Cores |-> 0]
  /\ frame = [c \in Cores |-> NoFrame]
  /\ mscratch = [c \in Cores |-> NoDesc]
  /\ wspawns = [c \in Cores |-> <<>>]
  /\ tmc_calls = [c \in Cores |-> 0]
  /\ tmask = [c \in Cores |-> [w \in Warps |-> IF w = 0 THEN {0} ELSE {}]]
  /\ warp = [c \in Cores |-> [w \in Warps |-> IF w = 0 THEN HostWarp ELSE IdleWarp]]
  /\ tls = [c \in Cores |-> [w \in Warps |-> [t \in Lanes |-> ZeroTls]]]
  /\ calls = {}

\* ---- vx_spawn_threads: entry, up to the warp spawn ------------------------
\* Mutant of vx_spawn_threads_oversize: the error path falls through to the
\* final vx_wspawn(1, 0) before returning -1.
vx_spawn_threads_oversize_join(c) ==
  LET geo == Geometry(args.dimension, args.grid_dim, args.block_dim)
  IN /\ pc[c] = "call"
     /\ Oversize(geo.group_size, dev.warps_per_core, dev.threads_per_warp)
     /\ gridDim' = geo.gridDim
     /\ blockDim' = geo.blockDim
     /\ wspawns' = [wspawns EXCEPT ![c] = Append(@, 1)]
     /\ ret' = [ret EXCEPT ![c] = -1]
     /\ pc' = [pc EXCEPT ![c] = "done"]
     /\ UNCHANGED <<args, dev, warps_per_group_g, frame, mscratch,
                    tmc_calls, tmask, warp, tls, calls>>

\* Oversized block: the call prints the error and returns -1.
vx_spawn_threads_oversize(c) ==
  LET geo == Geometry(args.dimension, args.grid_dim, args.block_dim)
  IN /\ pc[c] = "call"
     /\ Oversize(geo.group_size, dev.warps_per_core, dev.threads_per_warp)
     /\ gridDim' = geo.gridDim
     /\ blockDim' = geo.blockDim
     /\ ret' = [ret EXCEPT ![c] = -1]
     /\ pc' = [pc EXCEPT ![c] = "done"]
     /\ UNCHANGED <<args, dev, warps_per_group_g, frame, mscratch, wspawns,
                    tmc_calls, tmask, warp, tls, calls>>

\* group_size > 1: partition the blocks, marshal the descriptor, publish
\* __warps_per_group, spawn the siblings and enter the stub on warp 0.
vx_spawn_threads_groups(c) ==
  LET geo == Geometry(args.dimension, args.grid_dim, args.block_dim)
      warps_per_group == WarpsPerGroup(geo.group_size, dev.threads_per_warp)
      active_cores == ActiveCoresGroups(geo.num_groups, warps_per_group,
                                        dev.num_cores, dev.warps_per_core)
      total_groups_per_core == PerCore(geo.num_groups, active_cores, c)
      sched == GroupsSchedule(total_groups_per_core, warps_per_group, dev.warps_per_core)
      wspawn_args == GroupsArgs(geo.num_groups, geo.group_size, active_cores, c,
                                dev.warps_per_core, dev.threads_per_warp)
  IN /\ pc[c] = "call"
     /\ ~Oversize(geo.group_size, dev.warps_per_core, dev.threads_per_warp)
     /\ geo.group_size > 1
     /\ gridDim' = geo.gridDim
     /\ blockDim' = geo.blockDim
     /\ IF c >= active_cores
        THEN /\ ret' = [ret EXCEPT ![c] = 0]
             /\ pc' = [pc EXCEPT ![c] = "done"]
             /\ frame' = [frame EXCEPT ![c] =
                            [path |-> "groups", active_cores |-> active_cores]]
             /\ UNCHANGED <<warps_per_group_g, mscratch, wspawns, warp>>
        ELSE /\ frame' = [frame EXCEPT ![c] =
                            [path |-> "groups", active_cores |-> active_cores,
                             per_core |-> total_groups_per_core,
                             offset |-> wspawn_args.group_offset,
                             active_warps |-> sched.active_warps,
                             remaining |-> 0]]
             /\ mscratch' = [mscratch EXCEPT ![c] = wspawn_args]
             /\ warps_per_group_g' = warps_per_group
             /\ wspawns' = [wspawns EXCEPT ![c] = Append(@, sched.active_warps)]
             /\ warp' = [warp EXCEPT ![c] =
                           [w \in Warps |->
                              IF w = 0 \/ w \in Spawned(sched.active_warps)
                              THEN AtStub
                              ELSE @[w]]]
             /\ pc' = [pc EXCEPT ![c] = "stub"]
             /\ UNCHANGED ret
     /\ tmask' = [tmask EXCEPT ![c] =
                    [w \in Warps |->
                       IF c < active_cores /\ w \in Spawned(sched.active_warps)
                       THEN {0} ELSE @[w]]]
     /\ UNCHANGED <<args, dev, tmc_calls, tls, calls>>

\* group_size <= 1: partition the tasks, marshal the descriptor, spawn the
\* siblings when there is a full warp of tasks, and go on to process_threads
\* (or straight to the remaining tasks) on warp 0.
vx_spawn_threads_tasks(c) ==
  LET geo == Geometry(args.dimension, args.grid_dim, args.block_dim)
      num_tasks == geo.num_groups
      active_cores == ActiveCoresTasks(num_tasks, dev.num_cores,
                                       dev.warps_per_core, dev.threads_per_warp)
      tasks_per_core == PerCore(num_tasks, active_cores, c)
      sched == TasksSchedule(tasks_per_core, dev.warps_per_core, dev.threads_per_warp)
      remaining_individual_tasks ==
        RemainingIndividualTasks(tasks_per_core, dev.threads_per_warp)
      wspawn_args == ThreadsArgs(num_tasks, active_cores, c,
                                 dev.warps_per_core, dev.threads_per_warp)
  IN /\ pc[c] = "call"
     /\ ~Oversize(geo.group_size, dev.warps_per_core, dev.threads_per_warp)
     /\ ~(geo.group_size > 1)
     /\ gridDim' = geo.gridDim
     /\ blockDim' = geo.blockDim
     /\ warps_per_group_g' = 0
     /\ IF c >= active_cores
        THEN /\ ret' = [ret EXCEPT ![c] = 0]
             /\ pc' = [pc EXCEPT ![c] = "done"]
             /\ frame' = [frame EXCEPT ![c] =
                            [path |-> "threads", active_cores |-> active_cores]]
             /\ UNCHANGED <<mscratch, wspawns, warp, tmask>>
        ELSE /\ frame' = [frame EXCEPT ![c] =
                            [path |-> "threads", active_cores |-> active_cores,
                             per_core |-> tasks_per_core,
                             offset |-> wspawn_args.all_tasks_offset,
                             active_warps |-> sched.active_warps,
                             remaining |-> remaining_individual_tasks]]
             /\ mscratch' = [mscratch EXCEPT ![c] = wspawn_args]
             /\ IF sched.active_warps >= 1
                THEN /\ wspawns' = [wspawns EXCEPT ![c] = Append(@, sched.active_warps)]
                     /\ warp' = [warp EXCEPT ![c] =
                                   [w \in Warps |->
                                      IF w = 0 \/ w \in Spawned(sched.active_warps)
                                      THEN AtStub ELSE @[w]]]
                     /\ tmask' = [tmask EXCEPT ![c] =
                                    [w \in Warps |->
                                       IF w \in Spawned(sched.active_warps)
                                       THEN {0} ELSE @[w]]]
                     /\ pc' = [pc EXCEPT ![c] = "stub"]
                ELSE /\ pc' = [pc EXCEPT ![c] = "remain"]
                     /\ UNCHANGED <<wspawns, warp, tmask>>
             /\ UNCHANGED ret
     /\ UNCHANGED <<args, dev, tmc_calls, tls, calls>>

\* ---- groups stub -----------------------------------------------------------
\* The mask process_thread_groups_stub writes for warp warp_id.
ThreadsMask(warp_id, warps_per_group, remaining_mask) ==
  LET group_warp_id == warp_id % warps_per_group
  IN IF group_warp_id = warps_per_group - 1 THEN remaining_mask ELSE -1

Iterations(warp_id, warp_batches, remaining_warps) ==
  warp_batches + (IF warp_id < remaining_warps THEN 1 ELSE 0)

\* Mutant of LocalGroupId: the remainder is taken where the quotient is meant.
LocalGroupIdRemainder(warp_id, warps_per_group) == warp_id % warps_per_group

LocalGroupId(warp_id, warps_per_group) == warp_id \div warps_per_group

LocalTaskId(warp_id, thread_id, warps_per_group, threads_per_warp) ==
  LET local_group_id == LocalGroupId(warp_id, warps_per_group)
      group_warp_id == warp_id - local_group_id * warps_per_group
  IN group_warp_id * threads_per_warp + thread_id

StartGroup(warp_id, targs) ==
  targs.group_offset + LocalGroupId(warp_id, targs.warps_per_group)

EndGroup(warp_id, targs) ==
  StartGroup(warp_id, targs)
    + Iterations(warp_id, targs.warp_batches, targs.remaining_warps) * targs.groups_per_core

\* process_thread_groups_stub up to the loop of process_thread_groups: the
\* warp sets its thread mask, and every enabled lane sets __local_group_id
\* and threadIdx and initialises its loop variable.
process_thread_groups_enter(c, w) ==
  LET targs == mscratch[c]
      threads_mask == ThreadsMask(w, targs.warps_per_group, targs.remaining_mask)
      active == ActiveLanes(threads_mask, dev.threads_per_warp)
  IN /\ warp[c][w].pc = "stub"
     /\ targs.kind = "groups"
     /\ tmask' = [tmask EXCEPT ![c][w] = active]
     /\ tmc_calls' = [tmc_calls EXCEPT ![c] = @ + 1]
     /\ tls' = [tls EXCEPT ![c][w] =
                  [t \in Lanes |->
                     IF t \in active
                     THEN [@[t] EXCEPT
                             !.local_group_id = LocalGroupId(w, targs.warps_per_group),
                             !.threadIdx =
                               ThreadIdxOf(LocalTaskId(w, t, targs.warps_per_group,
                                                       dev.threads_per_warp), blockDim)]
                     ELSE @[t]]]
     /\ warp' = [warp EXCEPT ![c][w] =
                   [pc |-> "loop",
                    id |-> [t \in Lanes |-> StartGroup(w, targs)],
                    end |-> [t \in Lanes |-> EndGroup(w, targs)]]]
     /\ UNCHANGED <<args, dev, gridDim, blockDim, warps_per_group_g, pc, ret, frame,
                    mscratch, wspawns, calls>>

\* One iteration of the loop of process_thread_groups: every enabled lane sets
\* blockIdx from group_id and calls the callback.
process_thread_groups(c, w) ==
  LET targs == mscratch[c]
      active == tmask[c][w]
      now == [t \in Lanes |->
                IF t \in active
                THEN [tls[c][w][t] EXCEPT !.blockIdx = BlockIdxOf(warp[c][w].id[t], gridDim)]
                ELSE tls[c][w][t]]
  IN /\ warp[c][w].pc = "loop"
     /\ targs.kind = "groups"
     /\ \A t \in active : warp[c][w].id[t] < warp[c][w].end[t]
     /\ tls' = [tls EXCEPT ![c][w] = now]
     /\ calls' = calls \cup
          {Observation(c, w, t, "process_thread_groups", warp[c][w].id[t], now[t], active) :
             t \in active}
     /\ warp' = [warp EXCEPT ![c][w].id =
                   [t \in Lanes |-> @[t] + targs.groups_per_core]]
     /\ UNCHANGED <<args, dev, gridDim, blockDim, warps_per_group_g, pc, ret, frame,
                    mscratch, wspawns, tmc_calls, tmask>>

\* The end of process_thread_groups_stub: vx_tmc(0 == vx_warp_id()) leaves lane 0
\* of warp 0 enabled and disables every other warp.
process_thread_groups_exit(c, w) ==
  /\ warp[c][w].pc = "loop"
  /\ mscratch[c].kind = "groups"
  /\ \A t \in tmask[c][w] : ~(warp[c][w].id[t] < warp[c][w].end[t])
  /\ tmask' = [tmask EXCEPT ![c][w] = ActiveLanes(IF 0 = w THEN 1 ELSE 0, dev.threads_per_warp)]
  /\ tmc_calls' = [tmc_calls EXCEPT ![c] = @ + 1]
  /\ warp' = [warp EXCEPT ![c][w].pc = IF w = 0 THEN "host" ELSE "off"]
  /\ pc' = IF w = 0 THEN [pc EXCEPT ![c] = "join"] ELSE pc
  /\ UNCHANGED <<args, dev, gridDim, blockDim, warps_per_group_g, ret, frame,
                 mscratch, wspawns, tls, calls>>

\* ---- threads stub ----------------------------------------------------------
\* Mutant of StartWarp: the warps that take an extra iteration are not
\* allowed for.
StartWarpEvenBatches(warp_id, warp_batches, remaining_warps) ==
  warp_id * warp_batches

StartWarp(warp_id, warp_batches, remaining_warps) ==
  (warp_id * warp_batches) + MIN(warp_id, remaining_warps)

StartTaskId(warp_id, thread_id, targs, threads_per_warp) ==
  targs.all_tasks_offset
    + (StartWarp(warp_id, targs.warp_batches, targs.remaining_warps) * threads_per_warp)
    + thread_id

EndTaskId(warp_id, thread_id, targs, threads_per_warp) ==
  StartTaskId(warp_id, thread_id, targs, threads_per_warp)
    + Iterations(warp_id, targs.warp_batches, targs.remaining_warps) * threads_per_warp

\* vx_tmc(-1) followed by process_threads up to its loop, on a sibling (inside
\* process_threads_stub) and on warp 0 (inline in vx_spawn_threads): all lanes
\* are enabled and every lane clears __local_group_id and threadIdx.
process_threads_enter(c, w) ==
  LET targs == mscratch[c]
      active == ActiveLanes(-1, dev.threads_per_warp)
  IN /\ warp[c][w].pc = "stub"
     /\ targs.kind = "threads"
     /\ tmask' = [tmask EXCEPT ![c][w] = active]
     /\ tmc_calls' = [tmc_calls EXCEPT ![c] = @ + 1]
     /\ tls' = [tls EXCEPT ![c][w] =
                  [t \in Lanes |->
                     IF t \in active
                     THEN [@[t] EXCEPT !.local_group_id = 0, !.threadIdx = <<0, 0, 0>>]
                     ELSE @[t]]]
     /\ warp' = [warp EXCEPT ![c][w] =
                   [pc |-> "loop",
                    id |-> [t \in Lanes |-> StartTaskId(w, t, targs, dev.threads_per_warp)],
                    end |-> [t \in Lanes |-> EndTaskId(w, t, targs, dev.threads_per_warp)]]]
     /\ UNCHANGED <<args, dev, gridDim, blockDim, warps_per_group_g, pc, ret, frame,
                    mscratch, wspawns, calls>>

\* One iteration of the loop of process_threads: every lane sets blockIdx from
\* its task_id and calls the callback.
process_threads(c, w) ==
  LET active == tmask[c][w]
      now == [t \in Lanes |->
                IF t \in active
                THEN [tls[c][w][t] EXCEPT !.blockIdx = BlockIdxOf(warp[c][w].id[t], gridDim)]
                ELSE tls[c][w][t]]
  IN /\ warp[c][w].pc = "loop"
     /\ mscratch[c].kind = "threads"
     /\ \A t \in active : warp[c][w].id[t] < warp[c][w].end[t]
     /\ tls' = [tls EXCEPT ![c][w] = now]
     /\ calls' = calls \cup
          {Observation(c, w, t, "process_threads", warp[c][w].id[t], now[t], active) :
             t \in active}
     /\ warp' = [warp EXCEPT ![c][w].id = [t \in Lanes |-> @[t] + dev.threads_per_warp]]
     /\ UNCHANGED <<args, dev, gridDim, blockDim, warps_per_group_g, pc, ret, frame,
                    mscratch, wspawns, tmc_calls, tmask>>

\* Mutant of process_threads_exit: a sibling ends with vx_tmc_one, as warp 0
\* does, rather than vx_tmc_zero.
process_threads_exit_tmc_one(c, w) ==
  /\ warp[c][w].pc = "loop"
  /\ mscratch[c].kind = "threads"
  /\ \A t \in tmask[c][w] : ~(warp[c][w].id[t] < warp[c][w].end[t])
  /\ tmask' = [tmask EXCEPT ![c][w] = ActiveLanes(1, dev.threads_per_warp)]
  /\ tmc_calls' = [tmc_calls EXCEPT ![c] = @ + 1]
  /\ warp' = [warp EXCEPT ![c][w].pc = IF w = 0 THEN "host" ELSE "off"]
  /\ pc' = IF w = 0 THEN [pc EXCEPT ![c] = "remain"] ELSE pc
  /\ UNCHANGED <<args, dev, gridDim, blockDim, warps_per_group_g, ret, frame,
                 mscratch, wspawns, tls, calls>>

\* After the loop of process_threads: a sibling disables itself (vx_tmc_zero),
\* warp 0 goes back to lane 0 (vx_tmc_one) and on to the remaining tasks.
process_threads_exit(c, w) ==
  /\ warp[c][w].pc = "loop"
  /\ mscratch[c].kind = "threads"
  /\ \A t \in tmask[c][w] : ~(warp[c][w].id[t] < warp[c][w].end[t])
  /\ tmask' = [tmask EXCEPT ![c][w] = ActiveLanes(IF w = 0 THEN 1 ELSE 0, dev.threads_per_warp)]
  /\ tmc_calls' = [tmc_calls EXCEPT ![c] = @ + 1]
  /\ warp' = [warp EXCEPT ![c][w].pc = IF w = 0 THEN "host" ELSE "off"]
  /\ pc' = IF w = 0 THEN [pc EXCEPT ![c] = "remain"] ELSE pc
  /\ UNCHANGED <<args, dev, gridDim, blockDim, warps_per_group_g, ret, frame,
                 mscratch, wspawns, tls, calls>>

\* The tail of the task path on warp 0: when tasks remain that fill no warp,
\* the first remaining_individual_tasks lanes are enabled, each calls the callback
\* in process_remaining_threads (which computes task_id and stores it nowhere),
\* and the warp goes back to lane 0.
process_remaining_threads(c) ==
  LET targs == mscratch[c]
      remaining_individual_tasks == frame[c].remaining
      tmask_ == Pow2(remaining_individual_tasks) - 1
      active == ActiveLanes(tmask_, dev.threads_per_warp)
  IN /\ pc[c] = "remain"
     /\ IF remaining_individual_tasks # 0
        THEN /\ calls' = calls \cup
                  {Observation(c, 0, t, "process_remaining_threads",
                               targs.remain_tasks_offset + t, tls[c][0][t], active) :
                     t \in active}
             /\ tmask' = [tmask EXCEPT ![c][0] = ActiveLanes(1, dev.threads_per_warp)]
             /\ tmc_calls' = [tmc_calls EXCEPT ![c] = @ + 2]
        ELSE UNCHANGED <<calls, tmask, tmc_calls>>
     /\ pc' = [pc EXCEPT ![c] = "join"]
     /\ UNCHANGED <<args, dev, gridDim, blockDim, warps_per_group_g, ret, frame,
                    mscratch, wspawns, warp, tls>>

\* ---- join ------------------------------------------------------------------
\* Mutant of vx_spawn_threads_join: the call returns 0 without the final
\* vx_wspawn(1, 0).
vx_spawn_threads_return_unjoined(c) ==
  /\ pc[c] = "join"
  /\ ret' = [ret EXCEPT ![c] = 0]
  /\ pc' = [pc EXCEPT ![c] = "done"]
  /\ UNCHANGED <<args, dev, gridDim, blockDim, warps_per_group_g, frame,
                 mscratch, wspawns, tmc_calls, tmask, warp, tls, calls>>

\* vx_wspawn(1, 0) and the return of vx_spawn_threads.
vx_spawn_threads_join(c) ==
  /\ pc[c] = "join"
  /\ Quiesced(c)
  /\ wspawns' = [wspawns EXCEPT ![c] = Append(@, 1)]
  /\ ret' = [ret EXCEPT ![c] = 0]
  /\ pc' = [pc EXCEPT ![c] = "done"]
  /\ UNCHANGED <<args, dev, gridDim, blockDim, warps_per_group_g, frame,
                 mscratch, tmc_calls, tmask, warp, tls, calls>>

Next ==
  \/ \E c \in Cores : vx_spawn_threads_oversize(c)
  \/ \E c \in Cores : vx_spawn_threads_groups(c)
  \/ \E c \in Cores : vx_spawn_threads_tasks(c)
  \/ \E c \in Cores : \E w \in Warps : process_thread_groups_enter(c, w)
  \/ \E c \in Cores : \E w \in Warps : process_thread_groups(c, w)
  \/ \E c \in Cores : \E w \in Warps : process_thread_groups_exit(c, w)
  \/ \E c \in Cores : \E w \in Warps : process_threads_enter(c, w)
  \/ \E c \in Cores : \E w \in Warps : process_threads(c, w)
  \/ \E c \in Cores : \E w \in Warps : process_threads_exit(c, w)
  \/ \E c \in Cores : process_remaining_threads(c)
  \/ \E c \in Cores : vx_spawn_threads_join(c)

Spec == Init /\ [][Next]_vars

\* Every callback invocation returns and the hardware goes on running some
\* enabled warp for as long as there is one: a launch does not stop while a step
\* of it can be taken.
SpecFair == Spec /\ WF_vars(Next)

\* ---- the concrete launches of section 8 of the specification --------------
\* The device of the scenarios, and the one-warp device of scenario S6.
DeviceS == [num_cores |-> 2, warps_per_core |-> 4, threads_per_warp |-> 4]

DeviceS6 == [num_cores |-> 2, warps_per_core |-> 1, threads_per_warp |-> 4]

LaunchS1 == [dimension |-> 3, grid_dim |-> <<8, 1, 1>>, block_dim |-> <<1, 1, 1>>]

LaunchS2 == [dimension |-> 3, grid_dim |-> <<3, 1, 1>>, block_dim |-> <<6, 1, 1>>]

LaunchS3 == [dimension |-> 3, grid_dim |-> <<5, 1, 1>>, block_dim |-> <<4, 1, 1>>]

LaunchS4 == [dimension |-> 3, grid_dim |-> <<1, 1, 1>>, block_dim |-> <<17, 1, 1>>]

LaunchS5 == [dimension |-> 3, grid_dim |-> <<2, 2, 1>>, block_dim |-> <<2, 2, 1>>]

LaunchS6 == [dimension |-> 3, grid_dim |-> <<9, 1, 1>>, block_dim |-> <<1, 1, 1>>]

Scenarios ==
  {<<DeviceS, LaunchS1>>, <<DeviceS, LaunchS2>>, <<DeviceS, LaunchS3>>,
   <<DeviceS, LaunchS4>>, <<DeviceS, LaunchS5>>, <<DeviceS6, LaunchS6>>}

\* The state of the device before the first launch: zero-initialised globals and
\* thread-locals, warp 0 of every core running the host program on lane 0.
Boot ==
  /\ gridDim = <<0, 0, 0>>
  /\ blockDim = <<0, 0, 0>>
  /\ warps_per_group_g = 0
  /\ pc = [c \in Cores |-> "call"]
  /\ ret = [c \in Cores |-> 0]
  /\ frame = [c \in Cores |-> NoFrame]
  /\ mscratch = [c \in Cores |-> NoDesc]
  /\ wspawns = [c \in Cores |-> <<>>]
  /\ tmc_calls = [c \in Cores |-> 0]
  /\ tmask = [c \in Cores |-> [w \in Warps |-> IF w = 0 THEN {0} ELSE {}]]
  /\ warp = [c \in Cores |-> [w \in Warps |-> IF w = 0 THEN HostWarp ELSE IdleWarp]]
  /\ tls = [c \in Cores |-> [w \in Warps |-> [t \in Lanes |-> ZeroTls]]]
  /\ calls = {}

InitScenarios ==
  /\ \E s \in Scenarios : dev = s[1] /\ args = s[2]
  /\ Boot

SpecScenarios == InitScenarios /\ [][Next]_vars

\* ==== properties ============================================================
AllDone == \A c \in Cores : pc[c] = "done"

AllSucceeded == \A c \in Cores : pc[c] = "done" /\ ret[c] = 0

\* The index triples inside a dim3.
Box(dim) == {<<x, y, z>> : x \in 0 .. dim[1] - 1, y \in 0 .. dim[2] - 1, z \in 0 .. dim[3] - 1}

\* Row-major linear index of a triple inside dim.
Linear(idx, dim) == idx[1] + idx[2] * dim[1] + idx[3] * dim[1] * dim[2]

InitialMask == [w \in Warps |-> IF w = 0 THEN {0} ELSE {}]

\* No hardware effect has occurred on core c.
Untouched(c) ==
  /\ \A o \in calls : o.core # c
  /\ wspawns[c] = <<>>
  /\ tmc_calls[c] = 0
  /\ tmask[c] = InitialMask
  /\ mscratch[c] = NoDesc
  /\ \A w \in Warps \ {0} : warp[c][w].pc = "off"

\* C1 (coverage): once a validated launch has completed on all cores, every
\* (blockIdx, threadIdx) pair of gridDim x blockDim has been observed by exactly
\* one callback invocation, and nothing outside that product has been observed.
\* Stated for blocks of at least one thread, in both paths.
C1_Coverage ==
  (AllSucceeded /\ Prod(args.block_dim) >= 1) =>
    /\ \A b \in Box(gridDim) : \A t \in Box(blockDim) :
         Cardinality({o \in calls : o.blockIdx = b /\ o.threadIdx = t}) = 1
    /\ \A o \in calls : o.blockIdx \in Box(gridDim) /\ o.threadIdx \in Box(blockDim)

\* C2 (1-D task launch): after vx_spawn_threads(1, &N, nullptr, ...) with N >= 1
\* has completed on all cores, the kernel has run exactly once with
\* blockIdx.x = i for every i in [0, N).
C2_SpawnTasks ==
  (/\ args.dimension = 1
   /\ args.block_dim = NULL
   /\ args.grid_dim # NULL
   /\ AllDone)
  => \A i \in 0 .. args.grid_dim[1] - 1 :
       Cardinality({o \in calls : o.blockIdx[1] = i}) = 1

\* C3 (return code): a call that has returned returned -1 exactly when the
\* product of the block dimensions exceeds warps_per_core * threads_per_warp,
\* and 0 otherwise.
C3_ReturnCode ==
  \A c \in Cores :
    pc[c] = "done" =>
      IF Prod(args.block_dim) > dev.warps_per_core * dev.threads_per_warp
      THEN ret[c] = -1
      ELSE ret[c] = 0

C3_Witness ==
  /\ Prod(args.block_dim) = dev.warps_per_core * dev.threads_per_warp + 1
  /\ \E c \in Cores : pc[c] = "done" /\ ret[c] = -1

\* C4 (no effect on error): on a core whose call returned -1, no callback has
\* run, vx_wspawn has not been called, no thread mask has been written and the
\* scratch CSR has not been written.
C4_NoEffectOnError ==
  \A c \in Cores : (pc[c] = "done" /\ ret[c] = -1) => Untouched(c)

C4_Witness ==
  /\ \A c \in Cores : pc[c] = "done" /\ ret[c] = -1
  /\ dev.num_cores = MaxCores

\* Core c has passed the partitioner and takes part in the launch.
ActiveCore(c) ==
  /\ pc[c] # "call"
  /\ frame[c].path # "none"
  /\ c < frame[c].active_cores

\* The slab the partitioner of core c computed.
Slab(c) == frame[c].offset .. frame[c].offset + frame[c].per_core - 1

\* The linear block indices core c has invoked the callback for.
Executed(c) == {Linear(o.blockIdx, gridDim) : o \in {x \in calls : x.core = c}}

\* C5 (slabs): the slabs the active cores compute start at 0, each starts
\* where its predecessor's ends, the last ends at num_groups, and no two overlap.
C5_Slabs ==
  \A c \in Cores :
    ActiveCore(c) =>
      /\ (c = 0 => frame[c].offset = 0)
      /\ (c = frame[c].active_cores - 1
            => frame[c].offset + frame[c].per_core = Prod(args.grid_dim))
      /\ \A d \in Cores :
           (ActiveCore(d) /\ d # c) =>
             /\ Slab(c) \cap Slab(d) = {}
             /\ (d = c + 1 => frame[d].offset = frame[c].offset + frame[c].per_core)

C5_Witness ==
  \E c \in Cores : \E d \in Cores :
    /\ ActiveCore(c) /\ ActiveCore(d) /\ d = c + 1
    /\ frame[c].path = "groups"
    /\ frame[c].per_core = frame[d].per_core + 1

\* C6 (slab contiguity, groups path): a core never invokes the callback for a
\* block outside its slab, and when its call has returned the blocks it has
\* invoked the callback for are exactly its slab.
C6_SlabContiguity ==
  \A c \in Cores :
    (ActiveCore(c) /\ frame[c].path = "groups") =>
      /\ Executed(c) \subseteq Slab(c)
      /\ (pc[c] = "done" => Executed(c) = Slab(c))

C6_Witness ==
  \E c \in Cores :
    /\ ActiveCore(c) /\ frame[c].path = "groups" /\ pc[c] = "done"
    /\ mscratch[c].remaining_warps > 0

\* C7 (balance): the slab sizes of two active cores differ by at most 1, and
\* the cores with the larger slab are exactly those with
\* core_id < num_groups mod active_cores.
C7_Balanced ==
  \A c \in Cores :
    ActiveCore(c) =>
      LET n == Prod(args.grid_dim)
          a == frame[c].active_cores
      IN /\ frame[c].per_core = (n \div a) + (IF c < n % a THEN 1 ELSE 0)
         /\ \A d \in Cores :
              ActiveCore(d) =>
                /\ frame[c].per_core - frame[d].per_core \in {-1, 0, 1}
                /\ (frame[c].per_core > frame[d].per_core => c < n % a /\ ~(d < n % a))

C7_Witness ==
  \E c \in Cores : \E d \in Cores :
    /\ ActiveCore(c) /\ ActiveCore(d)
    /\ frame[c].path = "threads"
    /\ frame[c].per_core > frame[d].per_core

\* C8 (tail mask): in the groups path, with r = group_size mod threads_per_warp,
\* a callback invocation on the last warp of a block runs with exactly lanes
\* 0 .. r-1 enabled when r # 0; every other invocation runs with all lanes.
C8_TailMask ==
  \A o \in calls :
    o.fn = "process_thread_groups" =>
      LET group_size == Prod(args.block_dim)
          r == group_size % dev.threads_per_warp
          wpg == (group_size + dev.threads_per_warp - 1) \div dev.threads_per_warp
      IN IF r # 0 /\ o.warp % wpg = wpg - 1
         THEN o.tmask = 0 .. r - 1
         ELSE o.tmask = Lanes

C8_Witness ==
  \E o \in calls : \E q \in calls :
    /\ o.fn = "process_thread_groups" /\ q.fn = "process_thread_groups"
    /\ o.core = q.core /\ o.blockIdx = q.blockIdx
    /\ o.tmask # Lanes /\ q.tmask = Lanes

\* C9 (zero grid): when some grid axis is 0 and the block fits on a core, no
\* core invokes the callback, spawns a warp, writes the scratch CSR or a thread
\* mask, and every call that has returned returned 0.
C9_ZeroGrid ==
  (/\ Prod(args.grid_dim) = 0
   /\ Prod(args.block_dim) <= dev.warps_per_core * dev.threads_per_warp)
  => \A c \in Cores :
       /\ Untouched(c)
       /\ pc[c] \in {"call", "done"}
       /\ (pc[c] = "done" => ret[c] = 0)

C9_Witness ==
  /\ Prod(args.grid_dim) = 0
  /\ Prod(args.block_dim) > 1
  /\ AllSucceeded

\* The number of loop iterations warp w of core c has made.
IterCount(c, w) == Cardinality({o \in calls : o.core = c /\ o.warp = w /\ o.lane = 0})

RECURSIVE SumIter(_, _)
SumIter(c, n) == IF n = 0 THEN 0 ELSE IterCount(c, n - 1) + SumIter(c, n - 1)

\* The launch needs more warps than the device has.
Oversubscribed(c) ==
  /\ ActiveCore(c) /\ frame[c].path = "groups"
  /\ Prod(args.grid_dim) * mscratch[c].warps_per_group
       > dev.num_cores * dev.warps_per_core

\* The iteration counts of two spawned warps of core c differ by at most 1,
\* and a warp that was not spawned makes none.
IterationsEven(c) ==
  /\ \A w \in Warps : \A v \in Warps :
       (w < frame[c].active_warps /\ v < frame[c].active_warps)
         => IterCount(c, w) - IterCount(c, v) \in {-1, 0, 1}
  /\ \A w \in Warps : w >= frame[c].active_warps => IterCount(c, w) = 0

\* C10 as claimed (batch correctness): on an oversubscribed launch, when a
\* core's call has returned, the iterations of its spawned warps sum to the
\* core's slab size, and differ by at most 1 between warps.
C10_BatchSum ==
  \A c \in Cores :
    (Oversubscribed(c) /\ pc[c] = "done") =>
      /\ SumIter(c, frame[c].active_warps) = frame[c].per_core
      /\ IterationsEven(c)

\* C10 as amended: the iterations of the spawned warps sum to the core's slab
\* size times warps_per_group (every warp of a block iterates once per block
\* it is given), and differ by at most 1 between warps.
C10_BatchSumWarps ==
  \A c \in Cores :
    (Oversubscribed(c) /\ pc[c] = "done") =>
      /\ SumIter(c, frame[c].active_warps)
           = frame[c].per_core * mscratch[c].warps_per_group
      /\ IterationsEven(c)

C10_Witness ==
  \E c \in Cores :
    /\ Oversubscribed(c) /\ pc[c] = "done"
    /\ mscratch[c].warps_per_group = 2
    /\ mscratch[c].warp_batches = 2

\* ---- a host program that launches again ------------------------------------
\* One core of three-lane warps, and one-dimensional launches on it.
DevicesR == [num_cores : {1}, warps_per_core : 1 .. MaxWarps, threads_per_warp : {3}]

LaunchesR ==
  {[dimension |-> 1, grid_dim |-> g, block_dim |-> b] :
     g \in {<<n>> : n \in 0 .. MaxGridAxis},
     b \in {NULL} \cup {<<n>> : n \in 0 .. MaxBlockAxis + 1}}

\* Once a launch has returned on every core the host program calls
\* vx_spawn_threads again.  The globals, the thread-locals of every lane, the
\* thread masks and the scratch CSR are as the previous launch left them; the
\* records kept of the previous launch (calls, wspawns, tmc_calls) start afresh.
Relaunch ==
  /\ \A c \in Cores : pc[c] = "done"
  /\ args' \in LaunchesR
  /\ pc' = [c \in Cores |-> "call"]
  /\ ret' = [c \in Cores |-> 0]
  /\ frame' = [c \in Cores |-> NoFrame]
  /\ wspawns' = [c \in Cores |-> <<>>]
  /\ tmc_calls' = [c \in Cores |-> 0]
  /\ calls' = {}
  /\ UNCHANGED <<dev, gridDim, blockDim, warps_per_group_g, mscratch, tmask, warp, tls>>

InitRelaunch ==
  /\ dev \in DevicesR
  /\ args \in LaunchesR
  /\ Boot

NextRelaunch == Next \/ Relaunch

SpecRelaunch == InitRelaunch /\ [][NextRelaunch]_vars

\* ---- scenario S2 -----------------------------------------------------------
InS2 == dev = DeviceS /\ args = LaunchS2

\* What the descriptors and the callbacks of S2 show apart from the slabs:
\* warps_per_group = 2, remaining_mask = 0b11, and every block is run by two
\* warps, the first with lanes 0..3 enabled and the second with lanes 0..1.
S2Shape ==
  /\ \A c \in Cores : mscratch[c].kind = "groups"
                      /\ mscratch[c].warps_per_group = 2
                      /\ mscratch[c].remaining_mask = 3
  /\ warps_per_group_g = 2
  /\ \A o \in calls : o.tmask = (IF o.warp % 2 = 0 THEN 0 .. 3 ELSE 0 .. 1)
  /\ \A b \in 0 .. 2 :
       {<<o.warp % 2, o.lane>> : o \in {x \in calls : Linear(x.blockIdx, gridDim) = b}}
         = ({0} \X (0 .. 3)) \cup ({1} \X (0 .. 1))

\* C11 as stated (scenario S2): once the launch grid=(3,1,1), block=(6,1,1) has
\* completed on the 2x4x4 device, warps_per_group = 2, remaining_mask = 0b11,
\* core 0 has executed blocks {0,2} and core 1 block {1}, the first warp of each
\* block with lanes 0..3 and the second with lanes 0..1.
C11_ScenarioS2 ==
  (InS2 /\ AllDone) =>
    /\ AllSucceeded
    /\ S2Shape
    /\ Executed(0) = {0, 2}
    /\ Executed(1) = {1}

\* C11 amended (scenario S2): as above, but the slabs are contiguous: core 0 has
\* executed blocks {0,1} and core 1 block {2}.
C11_ScenarioS2Contiguous ==
  (InS2 /\ AllDone) =>
    /\ AllSucceeded
    /\ S2Shape
    /\ Executed(0) = {0, 1}
    /\ Executed(1) = {2}

C11_Witness ==
  /\ InS2
  /\ AllDone
  /\ Cardinality(calls) = 18

\* ---- scenario S1 -----------------------------------------------------------
InS1 == dev = DeviceS /\ args = LaunchS1

\* Every task 0..7 has been handled by exactly one callback invocation, in the
\* one-thread-per-block path.
S1EachTaskOnce ==
  /\ \A c \in Cores : frame[c].path = "threads"
  /\ \A i \in 0 .. 7 :
       Cardinality({o \in calls : Linear(o.blockIdx, gridDim) = i}) = 1
  /\ Cardinality(calls) = 8

\* C12 as stated (scenario S1): once the launch grid=(8,1,1), block=(1,1,1) has
\* completed on the 2x4x4 device, it took the one-thread-per-block path, every
\* task 0..7 was handled exactly once, core 0 executed tasks 0..3 and core 1
\* tasks 4..7, and each core used a single full warp and no tail.
C12_ScenarioS1 ==
  (InS1 /\ AllDone) =>
    /\ AllSucceeded
    /\ S1EachTaskOnce
    /\ Executed(0) = 0 .. 3
    /\ Executed(1) = 4 .. 7
    /\ \A c \in Cores : ActiveCore(c) /\ frame[c].active_warps = 1
                        /\ frame[c].remaining = 0

\* C12 amended (scenario S1): 8 tasks fit the 16 threads of one core, so
\* active_cores = 1: core 0 executed all of tasks 0..7 on two full warps with no
\* tail, and core 1 sat out without any effect.
C12_ScenarioS1OneCore ==
  (InS1 /\ AllDone) =>
    /\ AllSucceeded
    /\ S1EachTaskOnce
    /\ Executed(0) = 0 .. 7
    /\ frame[0].active_cores = 1
    /\ frame[0].active_warps = 2
    /\ frame[0].remaining = 0
    /\ {o.warp : o \in calls} = {0, 1}
    /\ \A o \in calls : o.fn = "process_threads" /\ o.tmask = 0 .. 3
    /\ Untouched(1)

C12_Witness ==
  /\ InS1
  /\ AllDone
  /\ Cardinality(calls) = 8

\* ---- scenario S6 -----------------------------------------------------------
InS6 == dev = DeviceS6 /\ args = LaunchS6

\* The callback invocations of function fn on core c.
CallsOf(c, fn) == {o \in calls : o.core = c /\ o.fn = fn}

\* Every core ran one batch of one full warp (4 tasks); core full was assigned 4
\* tasks with no tail and core tailed 5 tasks with a tail of 1, so that
\* process_remaining_threads ran on core tailed only, with one enabled lane.
S6Assignment(full, tailed) ==
  /\ \A c \in Cores :
       /\ ActiveCore(c)
       /\ frame[c].active_warps = 1
       /\ mscratch[c].warp_batches = 1
       /\ mscratch[c].remaining_warps = 0
       /\ Cardinality(CallsOf(c, "process_threads")) = 4
       /\ \A o \in CallsOf(c, "process_threads") : o.warp = 0 /\ o.tmask = 0 .. 3
  /\ frame[full].per_core = 4
  /\ frame[full].remaining = 0
  /\ CallsOf(full, "process_remaining_threads") = {}
  /\ frame[tailed].per_core = 5
  /\ frame[tailed].remaining = 1
  /\ Cardinality(CallsOf(tailed, "process_remaining_threads")) = 1
  /\ \A o \in CallsOf(tailed, "process_remaining_threads") :
       o.warp = 0 /\ o.lane = 0 /\ o.tmask = {0}

\* C13 as stated (scenario S6): once the launch grid=(9,1,1), block=(1,1,1) has
\* completed on the device with 2 cores, 1 warp per core and 4 threads per warp,
\* each core ran one batch of one full warp, core 0 was assigned 4 tasks with
\* tail 0 and core 1 was assigned 5 tasks with tail 1, and the remainder stub
\* ran on exactly one core with exactly one active lane.
C13_ScenarioS6 ==
  (InS6 /\ AllDone) => (AllSucceeded /\ S6Assignment(0, 1))

\* C13 amended (scenario S6): the extra task goes to the lowest-indexed core:
\* core 0 was assigned 5 tasks with tail 1 and core 1 was assigned 4 tasks with
\* tail 0; the remainder stub ran on core 0 only, with exactly one active lane.
C13_ScenarioS6LowCore ==
  (InS6 /\ AllDone) => (AllSucceeded /\ S6Assignment(1, 0))

C13_Witness ==
  /\ InS6
  /\ AllDone
  /\ \E o \in calls : o.fn = "process_remaining_threads"

\* ---- task-path identity across launches ------------------------------------
\* C14: in the one-thread-per-block path every callback invocation, on a lane
\* of a full warp or on a tail lane, observes threadIdx = (0,0,0) and
\* local_group_id = 0, whatever launches went before on the same core.
C14_TaskPathIdentity ==
  \A o \in calls :
    o.fn \in {"process_threads", "process_remaining_threads"} =>
      (o.threadIdx = <<0, 0, 0>> /\ o.local_group_id = 0)

\* ---- join ------------------------------------------------------------------
\* The sibling warps core c spawned in its launch.
Siblings(c) == {w \in Warps : 1 <= w /\ w < frame[c].active_warps}

\* C15 (join before return): on an active core, once warp 0 has returned from
\* vx_spawn_threads every sibling warp the launch spawned has made all the
\* callback invocations its descriptor gives it and has disabled itself, and no
\* warp of the core is inside a stub, where the scratch descriptor is read.
C15_JoinBeforeReturn ==
  \A c \in Cores :
    (pc[c] = "done" /\ ret[c] = 0 /\ ActiveCore(c)) =>
      /\ \A w \in Warps : warp[c][w].pc \notin {"stub", "loop"}
      /\ \A w \in Siblings(c) :
           /\ warp[c][w].pc = "off"
           /\ tmask[c][w] = {}
           /\ IterCount(c, w) =
                Iterations(w, mscratch[c].warp_batches, mscratch[c].remaining_warps)

C15_Witness ==
  \E c \in Cores :
    /\ pc[c] = "done"
    /\ ActiveCore(c)
    /\ Siblings(c) # {}
    /\ \A w \in Siblings(c) : IterCount(c, w) >= 1

\* ---- the published __warps_per_group --------------------------------------
\* group_size of the launch in progress.
GroupSize == Geometry(args.dimension, args.grid_dim, args.block_dim).group_size

\* group_size <= warps_per_group * threads_per_warp <= warps_per_core * threads_per_warp
\* for the published warps_per_group.
WarpsPerGroupBounds ==
  /\ GroupSize <= warps_per_group_g * dev.threads_per_warp
  /\ warps_per_group_g * dev.threads_per_warp <= dev.warps_per_core * dev.threads_per_warp

\* C16 as stated: whenever a callback has run in a validated launch, of any
\* group_size, the published __warps_per_group satisfies
\* group_size <= __warps_per_group * threads_per_warp <= warps_per_core * threads_per_warp.
C16_PublishedWarpsPerGroup ==
  calls # {} => WarpsPerGroupBounds

\* C16 amended: whenever a callback has run in a launch with group_size > 1 the
\* published __warps_per_group satisfies the two bounds (and is the least such
\* value); whenever a callback has run in a launch with group_size <= 1 the
\* published __warps_per_group is 0.
C16_PublishedWarpsPerGroupByPath ==
  calls # {} =>
    IF GroupSize > 1
    THEN /\ WarpsPerGroupBounds
         /\ (warps_per_group_g - 1) * dev.threads_per_warp < GroupSize
    ELSE warps_per_group_g = 0

C16_Witness ==
  /\ \E o \in calls : o.fn = "process_thread_groups"
  /\ GroupSize % dev.threads_per_warp # 0
  /\ warps_per_group_g >= 2

\* ---- the stride of the groups stub ----------------------------------------
GroupsCore(c) == ActiveCore(c) /\ frame[c].path = "groups"

\* The linear block index warp w of core c is given in iteration i, for the
\* stride the claim names.
BlockOf(c, w, i, stride) ==
  frame[c].offset + LocalGroupId(w, mscratch[c].warps_per_group) + i * stride

\* The callbacks of core c are those of the loop with the given stride: each
\* sits at iteration i < iterations of its warp, with the matching blockIdx, and
\* once the core has returned every iteration of every spawned warp is there.
StridedBy(c, stride) ==
  LET its(w) == Iterations(w, mscratch[c].warp_batches, mscratch[c].remaining_warps)
  IN /\ \A o \in {x \in calls : x.core = c} :
          \E i \in 0 .. its(o.warp) - 1 :
            /\ o.lin = BlockOf(c, o.warp, i, stride)
            /\ Linear(o.blockIdx, gridDim) = o.lin
            /\ o.local_group_id = LocalGroupId(o.warp, mscratch[c].warps_per_group)
     /\ pc[c] = "done" =>
          \A w \in 0 .. frame[c].active_warps - 1 : \A i \in 0 .. its(w) - 1 :
            \E o \in calls : o.core = c /\ o.warp = w /\ o.lin = BlockOf(c, w, i, stride)

\* C17 as stated: the groups_per_core field of the scratch descriptor equals the
\* core's slab size, base + (core_id < rem), and in iteration i a warp invokes
\* the callback for block group_offset + local_group_id + i * (slab size).
C17_StrideIsSlabSize ==
  \A c \in Cores : GroupsCore(c) =>
    /\ mscratch[c].groups_per_core = frame[c].per_core
    /\ StridedBy(c, frame[c].per_core)

\* C17 amended: the groups_per_core field of the scratch descriptor is the
\* number of blocks resident on a core at once, floor(warps_per_core /
\* warps_per_group), and in iteration i a warp invokes the callback for block
\* group_offset + local_group_id + i * floor(warps_per_core / warps_per_group).
C17_StrideIsResidentGroups ==
  \A c \in Cores : GroupsCore(c) =>
    /\ mscratch[c].groups_per_core = dev.warps_per_core \div mscratch[c].warps_per_group
    /\ StridedBy(c, dev.warps_per_core \div mscratch[c].warps_per_group)

C17_Witness ==
  \E c \in Cores :
    /\ GroupsCore(c)
    /\ pc[c] = "done"
    /\ mscratch[c].warp_batches >= 2
    /\ mscratch[c].groups_per_core # frame[c].per_core

\* ---- thread masks at the end of a launch ----------------------------------
\* C18 (mask state at launch end): when vx_spawn_threads has returned 0 on an
\* active core, in either path, every warp of the core other than warp 0 has
\* no lane enabled and warp 0 has exactly lane 0 enabled.
C18_MasksAtReturn ==
  \A c \in Cores :
    (pc[c] = "done" /\ ret[c] = 0 /\ ActiveCore(c)) =>
      /\ tmask[c][0] = {0}
      /\ \A w \in Warps \ {0} : tmask[c][w] = {}

\* A core has returned after its warp 0 and a sibling ran callbacks with more
\* than lane 0 enabled.
C18_Witness ==
  \E c \in Cores :
    /\ pc[c] = "done"
    /\ ActiveCore(c)
    /\ \E o \in calls : o.core = c /\ o.warp = 0 /\ Cardinality(o.tmask) >= 2
    /\ \E o \in calls : o.core = c /\ o.warp >= 1 /\ Cardinality(o.tmask) >= 2

\* ---- cores that sit out ---------------------------------------------------
Ceil(a, b) == (a + b - 1) \div b

\* active_cores as the claim writes it, from the arguments and the device.
ClaimedActiveCores ==
  LET geo == Geometry(args.dimension, args.grid_dim, args.block_dim)
      needed == IF geo.group_size > 1
                THEN Ceil(geo.num_groups * Ceil(geo.group_size, dev.threads_per_warp),
                          dev.warps_per_core)
                ELSE Ceil(geo.num_groups, dev.warps_per_core * dev.threads_per_warp)
  IN MIN(dev.num_cores, needed)

Validated ==
  ~Oversize(GroupSize, dev.warps_per_core, dev.threads_per_warp)

\* C19 (sit-out cores): in a validated launch a core with core_id >=
\* active_cores goes from the call straight to the return of 0, and has invoked
\* no callback, spawned no warp, written no scratch CSR and changed no thread
\* mask.
C19_SitOut ==
  \A c \in Cores :
    (Validated /\ c >= ClaimedActiveCores) =>
      /\ pc[c] \in {"call", "done"}
      /\ pc[c] = "done" => ret[c] = 0
      /\ Untouched(c)

\* A core has sat out of a launch in which another core has run callbacks.
C19_Witness ==
  \E c \in Cores :
    /\ Validated
    /\ c >= ClaimedActiveCores
    /\ pc[c] = "done"
    /\ \E o \in calls : o.core # c

\* ---- the full-warp section of the task path -------------------------------
TasksCore(c) == ActiveCore(c) /\ frame[c].path = "threads"

\* The task index the claim gives warp w, iteration i, lane t of core c.
ClaimedTask(c, w, i, t) ==
  LET start_warp == w * mscratch[c].warp_batches + MIN(w, mscratch[c].remaining_warps)
  IN mscratch[c].all_tasks_offset + (start_warp + i) * dev.threads_per_warp + t

\* C20 (task-path full-warp section): on each active core of a task launch,
\* every task index process_threads produces is the claim's
\* all_tasks_offset + (start_warp + i) * threads_per_warp + thread_id for an
\* iteration i of its warp; once the core has returned these indices are
\* pairwise distinct and make up exactly [all_tasks_offset, remain_tasks_offset),
\* remain_tasks_offset being all_tasks_offset + floor(tasks_per_core /
\* threads_per_warp) * threads_per_warp, and the indices the tail computes make
\* up [remain_tasks_offset, remain_tasks_offset + tail).
C20_FullWarpSection ==
  \A c \in Cores : TasksCore(c) =>
    LET full == CallsOf(c, "process_threads")
        tail == CallsOf(c, "process_remaining_threads")
        its(w) == Iterations(w, mscratch[c].warp_batches, mscratch[c].remaining_warps)
        first == mscratch[c].all_tasks_offset
        split == mscratch[c].remain_tasks_offset
    IN /\ split = first + (frame[c].per_core \div dev.threads_per_warp) * dev.threads_per_warp
       /\ \A o \in full :
            /\ o.warp < frame[c].active_warps
            /\ \E i \in 0 .. its(o.warp) - 1 : o.lin = ClaimedTask(c, o.warp, i, o.lane)
       /\ pc[c] = "done" =>
            /\ {o.lin : o \in full} = first .. split - 1
            /\ Cardinality(full) = split - first
            /\ {o.lin : o \in tail} = split .. split + frame[c].remaining - 1
            /\ Cardinality(tail) = frame[c].remaining
            /\ split + frame[c].remaining = first + frame[c].per_core

\* A core has returned from a task launch in which some warps took one more
\* iteration than others.
C20_Witness ==
  \E c \in Cores :
    /\ TasksCore(c)
    /\ pc[c] = "done"
    /\ mscratch[c].remaining_warps > 0
    /\ Cardinality(CallsOf(c, "process_threads")) >= 3

\* ---- x-fastest decomposition ----------------------------------------------
Inside(idx, dim) == idx[1] < dim[1] /\ idx[2] < dim[2] /\ idx[3] < dim[3]

\* The invocation o sees the block its loop is at, and in the groups path the
\* thread its lane stands for.
RoundTrip(o) ==
  /\ Inside(o.blockIdx, gridDim)
  /\ Linear(o.blockIdx, gridDim) = o.lin
  /\ o.fn = "process_thread_groups" =>
       /\ Inside(o.threadIdx, blockDim)
       /\ Linear(o.threadIdx, blockDim) =
            LocalTaskId(o.warp, o.lane, warps_per_group_g, dev.threads_per_warp)

\* The round trip on the invocations made inside the two loops, that is, all
\* but those of process_remaining_threads.
RoundTripInLoops ==
  \A o \in calls : o.fn # "process_remaining_threads" => RoundTrip(o)

\* C21 (x-fastest round trip): for every callback invocation blockIdx lies
\* inside gridDim and recomposes to the linear block index being executed, and
\* in the groups path threadIdx lies inside blockDim and recomposes to
\* local_task_id = group_warp_id * threads_per_warp + thread_id.
C21_RoundTrip ==
  \A o \in calls : RoundTrip(o)

\* ---- local_group_id -------------------------------------------------------
\* The linear block indices warp w of core c has executed.
BlocksOf(c, w) == {o.lin : o \in {x \in calls : x.core = c /\ x.warp = w}}

\* C22 (local_group_id): in the groups path the local_group_id every callback
\* invocation observes is smaller than floor(warps_per_core / warps_per_group);
\* invocations of one core that observe different local_group_ids are never at
\* the same block; and once the core has returned, two of its spawned warps
\* have the same local_group_id exactly when they have executed the same blocks.
C22_LocalGroupId ==
  \A c \in Cores : GroupsCore(c) =>
    LET mine == CallsOf(c, "process_thread_groups")
        lgid(w) == w \div mscratch[c].warps_per_group
    IN /\ \A o \in mine :
            /\ o.local_group_id < dev.warps_per_core \div mscratch[c].warps_per_group
            /\ o.local_group_id = lgid(o.warp)
       /\ \A o1 \in mine : \A o2 \in mine :
            o1.local_group_id # o2.local_group_id => o1.lin # o2.lin
       /\ pc[c] = "done" =>
            \A w1 \in 0 .. frame[c].active_warps - 1 :
              \A w2 \in 0 .. frame[c].active_warps - 1 :
                (lgid(w1) = lgid(w2)) <=> (BlocksOf(c, w1) = BlocksOf(c, w2))

\* A core has returned from a multi-batch groups launch with two blocks resident.
C22_Witness ==
  \E c \in Cores :
    /\ GroupsCore(c)
    /\ pc[c] = "done"
    /\ mscratch[c].warp_batches >= 2
    /\ \E o \in calls : o.core = c /\ o.local_group_id = 1

\* ---- warp capacity --------------------------------------------------------
\* The warp count the claim gives for the spawn of the work stub on core c.
ClaimedWarpCount(c) ==
  IF frame[c].path = "groups"
  THEN LET warps_per_group == Ceil(GroupSize, dev.threads_per_warp)
       IN MIN(frame[c].per_core * warps_per_group,
              (dev.warps_per_core \div warps_per_group) * warps_per_group)
  ELSE MIN(frame[c].per_core \div dev.threads_per_warp, dev.warps_per_core)

\* C24 (warp capacity): on every active core the warp count passed to vx_wspawn
\* for the work stub is the claimed one, at least 1 and at most warps_per_core,
\* and in the groups path a multiple of warps_per_group; no warp with warp_id
\* at or above it invokes the callback.  When the task path has no full warp
\* the spawn is skipped and only warp 0 invokes the callback.  The only other
\* vx_wspawn of the launch is the final vx_wspawn(1, 0).
C24_WarpCapacity ==
  \A c \in Cores : ActiveCore(c) =>
    LET n == ClaimedWarpCount(c)
        mine == {o \in calls : o.core = c}
    IN IF n = 0
       THEN /\ frame[c].path = "threads"
            /\ wspawns[c] \in {<<>>, <<1>>}
            /\ \A o \in mine : o.warp = 0
       ELSE /\ wspawns[c] \in {<<n>>, <<n, 1>>}
            /\ 1 <= n
            /\ n <= dev.warps_per_core
            /\ frame[c].path = "groups" =>
                 n % Ceil(GroupSize, dev.threads_per_warp) = 0
            /\ \A o \in mine : o.warp < n

\* A core has returned from a launch whose work needed more warps than the core
\* has, some warps having run more iterations than others.
C24_Witness ==
  \E c \in Cores :
    /\ ActiveCore(c)
    /\ pc[c] = "done"
    /\ wspawns[c] = <<dev.warps_per_core, 1>>
    /\ dev.warps_per_core >= 2
    /\ mscratch[c].remaining_warps > 0

\* ---- all-or-nothing completion --------------------------------------------
\* The warps of core c whose callback observed block b, as positions inside
\* their block (group_warp_id).
WarpsAt(c, b) ==
  {o.warp % (IF warps_per_group_g = 0 THEN 1 ELSE warps_per_group_g) :
     o \in {x \in calls : x.core = c /\ Linear(x.blockIdx, gridDim) = b}}

\* The loops of core c are done: every spawned warp has made exactly its
\* iteration count and every sibling is off with an empty mask.
LoopsDone(c) ==
  /\ \A w \in 0 .. frame[c].active_warps - 1 :
       Cardinality({o \in CallsOf(c, "process_threads")
                        \cup CallsOf(c, "process_thread_groups") :
                      o.warp = w /\ o.lane = 0})
         = Iterations(w, mscratch[c].warp_batches, mscratch[c].remaining_warps)
  /\ \A w \in Warps \ {0} : warp[c][w].pc = "off" /\ tmask[c][w] = {}

\* Core c has finished with nothing left undone: every block of its slab has
\* been observed by each warp of the block, and its loops are done.
Complete(c) ==
  ActiveCore(c) =>
    /\ \A b \in Slab(c) :
         WarpsAt(c, b) = 0 .. (IF frame[c].path = "groups" THEN warps_per_group_g ELSE 1) - 1
    /\ LoopsDone(c)

\* Termination alone: a validated launch eventually returns 0 on every core,
\* and stays returned.
Terminates == Validated ~> [] AllSucceeded

\* The loops alone, at the return.
LoopsComplete ==
  AllSucceeded => \A c \in Cores : ActiveCore(c) => LoopsDone(c)

\* C23 (all-or-nothing completion), at the return: once a call that does not
\* return -1 has returned 0 on every core, every block of each core's slab has
\* been executed by all of its warps, every per-warp loop has made exactly its
\* iteration count and every sibling has disabled itself.
C23_AllOrNothing ==
  AllSucceeded => \A c \in Cores : Complete(c)

\* ---- blocks of zero threads -----------------------------------------------
NumGroups == Geometry(args.dimension, args.grid_dim, args.block_dim).num_groups

\* A launch whose block has zero threads and whose grid is not empty.
ZeroThreadBlock == GroupSize = 0 /\ NumGroups > 0

\* Such a launch is accepted and taken down the one-thread-per-block path: it
\* returns 0 on every core, blockDim is published with its zero axis, the
\* descriptor of every active core is the one a block of one thread would get,
\* and the callback is invoked once for each task index of the grid.
ZeroThreadBlockRouted ==
  (ZeroThreadBlock /\ AllDone) =>
    /\ AllSucceeded
    /\ \A c \in Cores : frame[c].path = "threads"
    /\ \E i \in 1 .. 3 : blockDim[i] = 0
    /\ \A i \in 1 .. 3 : blockDim[i] = BlockAxis(args.dimension, args.block_dim, i - 1)
    /\ \A c \in Cores : ActiveCore(c) =>
         mscratch[c] = ThreadsArgs(NumGroups, ClaimedActiveCores, c,
                                   dev.warps_per_core, dev.threads_per_warp)
    /\ {o.lin : o \in calls} = 0 .. NumGroups - 1
    /\ Cardinality(calls) = NumGroups

\* C25 (zero-thread block): a launch whose block has zero threads and whose
\* grid is not empty is not rejected and is not a no-op: it takes the
\* one-thread-per-block path, returns 0, and the callback is invoked once per
\* block of the grid, blockDim being published with the zero axis.
C25_ZeroThreadBlock ==
  (ZeroThreadBlock /\ AllDone) =>
    /\ AllSucceeded
    /\ \A c \in Cores : frame[c].path = "threads"
    /\ \E i \in 1 .. 3 : blockDim[i] = 0
    /\ \A b \in Box(gridDim) : Cardinality({o \in calls : o.blockIdx = b}) = 1
    /\ Cardinality(calls) = NumGroups

====
